---- MODULE Spec2Model ----
(***************************************************************************)
(* FTTH cut prediction (Sibaik17/OkalFTTH).                                *)
(*                                                                         *)
(* Two variants of the same script are modelled: src/cpapp.py (the         *)
(* Streamlit application, variant "cpapp") and src/unnamed/part_000 (the   *)
(* command-line script "Cut Prediction7.py", variant "cli").  They differ  *)
(* in the calibration literals of predict_cut_location only.               *)
(*                                                                         *)
(* Arithmetic.  The code computes in binary floating point; the model      *)
(* computes exactly, in hundredths of a metre:                             *)
(*   - table distances and OTDR distances are whole metres,                *)
(*   - the overread multiplier and slack_ratio are percentages             *)
(*     (1.25 -> 125, 1.05 -> 105, 1.1 -> 110), so that                     *)
(*     metres * percent = hundredths of a metre,                           *)
(*   - accumulated_distance, effective_distance, cable_adjustment and      *)
(*     distance_within_segment are hundredths of a metre.                  *)
(*                                                                         *)
(* Geodesy.  Every pole of the model lies on one meridian, where the       *)
(* initial bearing is computed exactly (0 or 180 degrees).  The geodesic   *)
(* destination is not evaluated: a projected result is the record of the   *)
(* start point, the bearing and the signed distance handed to geopy.  It   *)
(* is only produced with a distance different from 0, so it never equals   *)
(* the start point.                                                        *)
(***************************************************************************)
EXTENDS Integers, Sequences, FiniteSets, TLC

VARIABLES
    segment_data,   \* segments_db sheet: sequence of rows (row r has pandas label r-1)
    poles_data,     \* poles_db sheet: Pole_ID -> <<Latitude, Longitude>>
    variant,        \* which script runs: "cpapp" or "cli"
    slack_ratio,    \* slack_ratio handed to predict_cut_location, percent
    segment_id,     \* the Segment_ID the user selected
    call,           \* the last finished prediction request and its outcome
    prev,           \* the request finished before it
    cpc,            \* concurrent calls: position of each call
    cseg,           \* concurrent calls: Segment_ID of each call
    cdist,          \* concurrent calls: distance_otdr of each call
    cpos,           \* concurrent calls: loop position (1-based row of segment_poles)
    cacc,           \* concurrent calls: accumulated_distance frames
    cout            \* concurrent calls: outcome of each finished call

vars == <<segment_data, poles_data, variant, slack_ratio, segment_id, call, prev,
          cpc, cseg, cdist, cpos, cacc, cout>>

(***************************************************************************)
(* Bounds and input sets                                                   *)
(***************************************************************************)
MaxRows == 3

SegmentIds == {"A", "B"}

\* the segment selected in a session of one request after the other; the
\* rows of "B" are the rows of the other segments of the sheet
SelectedIds == {"A"}

\* forward distances (metres) of the rows of the segment the claims look at
Dists == {0, 100, 400}

\* forward distance (metres) of the rows of the other segment
FillerDist == {100}

OtdrDistances == {0, 80, 81, 400, 2000}

SlackRatios == {110, 125}

Variants == {"cpapp", "cli"}

(***************************************************************************)
(* Input tables                                                            *)
(***************************************************************************)
\* Latitude and Longitude of pole p, in millionths of a degree: the poles
\* stand 0.002 degrees apart on the meridian 100 E.
Coordinates(p) == <<10000000 + 2000 * p, 100000000>>

RowChoices == (({"A"} \X Dists) \cup ({"B"} \X FillerDist))

\* The segments_db sheets of at most MaxRows rows; row r names pole r.
SegmentTables ==
    UNION { { [r \in 1..n |-> [Segment_ID |-> f[r][1], Pole_ID |-> r, Distance |-> f[r][2]]]
              : f \in [1..n -> RowChoices] } : n \in 0..MaxRows }

\* The poles_db sheets for a segments_db sheet of n rows: every pole, or
\* every pole but one.
PolesTables(n) ==
    { [p \in (1..n) \ missing |-> Coordinates(p)] : missing \in {{}} \cup {{m} : m \in 1..n} }

(***************************************************************************)
(* load_database: pandas.read_excel gives the rows the default RangeIndex, *)
(* so row r of the sheet (1-based here) carries the label r - 1.           *)
(***************************************************************************)
load_database(sheet) ==
    [r \in 1..Len(sheet) |->
        [idx |-> r - 1, Segment_ID |-> sheet[r].Segment_ID,
         Pole_ID |-> sheet[r].Pole_ID, Distance |-> sheet[r].Distance]]

\* segment_data[segment_data['Segment_ID'] == segment_id]: a boolean-mask
\* selection keeps the order of the rows and their labels.
SelectRows(frame, id) == SelectSeq(frame, LAMBDA row : row.Segment_ID = id)

(***************************************************************************)
(* predict_cut_location                                                    *)
(***************************************************************************)
None == <<>>

\* adjusted_otdr_distance = distance_otdr * 1.25 (cpapp) / * 1.05 (cli)
OverreadPct(v) == IF v = "cpapp" THEN 125 ELSE 105

\* ... // 400 (cpapp) / // 500 (cli), metres
SlackSpan(v) == IF v = "cpapp" THEN 400 ELSE 500

\* ... * 15 (cpapp) / * 25 (cli), metres
SlackLoop(v) == IF v = "cpapp" THEN 15 ELSE 25

adjusted_otdr_distance(distance_otdr, v) == distance_otdr * OverreadPct(v)

\* row['Distance (m)'], in hundredths of a metre
pole_distance(row) == row.Distance * 100

\* ((accumulated_distance + pole_distance) // S) * C * slack_ratio
cable_adjustment(acc, pd, slack, v) ==
    ((acc + pd) \div (SlackSpan(v) * 100)) * SlackLoop(v) * slack

effective_distance(adjusted, ca) == adjusted - ca

InSpanStrict(cumulative, eff) == cumulative > eff

\* if accumulated_distance + pole_distance >= effective_distance
InSpan(cumulative, eff) == cumulative >= eff

distance_within_segment(eff, acc) == eff - acc

AccumulateAssign(acc, pd) == pd

\* accumulated_distance += pole_distance
Accumulate(acc, pd) == acc + pd

ValuesOrOrigin(poles, id) == IF id \in DOMAIN poles THEN <<poles[id]>> ELSE <<<<0, 0>>>>

\* poles_data.loc[poles_data['Pole_ID'] == id, ['Latitude', 'Longitude']].values:
\* the coordinate rows of the poles with that Pole_ID, none when there is no
\* such pole
Values(poles, id) == IF id \in DOMAIN poles THEN <<poles[id]>> ELSE <<>>

\* .values[0] raises IndexError on an empty array
LookupFails(values) == values = <<>>

\* if idx + 1 < len(segment_poles): idx is the label iterrows yields
HasNext(idx, n) == idx + 1 < n

\* segment_poles.iloc[idx + 1]: the 0-based position idx + 1, as a 1-based one
NextPosition(idx) == (idx + 1) + 1

\* calculate_initial_bearing for two points of equal longitude:
\* delta_lon = 0, x = 0, y = sin(lat2 - lat1), atan2(0, y) is 0 for y >= 0
\* and pi for y < 0; (degrees + 360) % 360 is then 0 or 180.
calculate_initial_bearing(start, end) ==
    IF end[1] >= start[1] THEN 0 ELSE 180

\* if end_coords is None or distance_within_segment == 0
ReturnsStart(end, dws) == end = None \/ dws = 0

Outcome(kind, sel, acc, eff, dws, start, end, end_pos, bearing) ==
    [kind |-> kind, sel |-> sel, accumulated_distance |-> acc,
     effective_distance |-> eff, distance_within_segment |-> dws,
     start_coords |-> start, end_coords |-> end, end_pos |-> end_pos,
     bearing |-> bearing]

\* The body of "if accumulated_distance + pole_distance >= effective_distance":
\* row i (1-based position) of rows is the selected entry.
Selected(rows, poles, i, acc, eff) ==
    LET row == rows[i]
        dws == distance_within_segment(eff, acc)
        start_values == Values(poles, row.Pole_ID)
        has_next == HasNext(row.idx, Len(rows))
        end_pos == IF has_next THEN NextPosition(row.idx) ELSE 0
        end_values == IF has_next THEN Values(poles, rows[end_pos].Pole_ID) ELSE <<>>
    IN  IF LookupFails(start_values)
        THEN Outcome("IndexError", i, acc, eff, dws, None, None, 0, -1)
        ELSE IF has_next /\ LookupFails(end_values)
        THEN Outcome("IndexError", i, acc, eff, dws, start_values[1], None, end_pos, -1)
        ELSE LET start == start_values[1]
                 end == IF has_next THEN end_values[1] ELSE None
             IN  IF ReturnsStart(end, dws)
                 THEN Outcome("start_coords", i, acc, eff, dws, start, end, end_pos, -1)
                 ELSE Outcome("destination", i, acc, eff, dws, start, end, end_pos,
                              calculate_initial_bearing(start, end))

\* One iteration of "for idx, row in segment_poles.iterrows()" at position i
\* with accumulated_distance = acc: the call's outcome, or "continue" with
\* the new accumulated_distance.
LoopBody(rows, poles, distance_otdr, slack, v, i, acc) ==
    LET pd == pole_distance(rows[i])
        ca == cable_adjustment(acc, pd, slack, v)
        eff == effective_distance(adjusted_otdr_distance(distance_otdr, v), ca)
    IN  IF InSpan(acc + pd, eff)
        THEN Selected(rows, poles, i, acc, eff)
        ELSE Outcome("continue", 0, Accumulate(acc, pd), eff, 0, None, None, 0, -1)

\* raise ValueError("OTDR distance exceeds total distance of the segment.")
OutOfRange(acc) == Outcome("OutOfRange", 0, acc, 0, 0, None, None, 0, -1)

RECURSIVE Loop(_, _, _, _, _, _, _)
Loop(rows, poles, distance_otdr, slack, v, i, acc) ==
    IF i > Len(rows)
    THEN OutOfRange(acc)
    ELSE LET step == LoopBody(rows, poles, distance_otdr, slack, v, i, acc)
         IN  IF step.kind = "continue"
             THEN Loop(rows, poles, distance_otdr, slack, v, i + 1,
                       step.accumulated_distance)
             ELSE step

predict_cut_location(rows, poles, distance_otdr, slack, v) ==
    Loop(rows, poles, distance_otdr, slack, v, 1, 0)

\* validate_segment: the rows of the segment, or
\* raise ValueError("Invalid Segment_ID ...") if data.empty
InvalidSegment == Outcome("InvalidSegment", 0, 0, 0, 0, None, None, 0, -1)

Valid == Outcome("valid", 0, 0, 0, 0, None, None, 0, -1)

validate_segment(frame, id) ==
    IF SelectRows(frame, id) = <<>> THEN InvalidSegment ELSE Valid

(***************************************************************************)
(* Specification Spec: one session.  The sheets are loaded, a segment is   *)
(* selected, and validate_segment and predict_cut_location are called one  *)
(* after the other on the selected segment.  call is the last finished     *)
(* call, prev the one before it.                                           *)
(***************************************************************************)
NoCall == [entry |-> "none", distance_otdr |-> 0, out |-> Valid]

InitConcurrentIdle ==
    /\ cpc = <<>>
    /\ cseg = <<>>
    /\ cdist = <<>>
    /\ cpos = <<>>
    /\ cacc = <<>>
    /\ cout = <<>>

Init ==
    /\ segment_data \in SegmentTables
    /\ poles_data \in PolesTables(Len(segment_data))
    /\ variant \in Variants
    /\ slack_ratio \in SlackRatios
    /\ segment_id \in SelectedIds
    /\ call = NoCall
    /\ prev = NoCall
    /\ InitConcurrentIdle

\* The rows predict_cut_location is handed for segment id.
segment_poles(id) == SelectRows(load_database(segment_data), id)

ValidateSegment ==
    /\ call' = [entry |-> "validate", distance_otdr |-> 0,
                out |-> validate_segment(load_database(segment_data), segment_id)]
    /\ prev' = call
    /\ UNCHANGED <<segment_data, poles_data, variant, slack_ratio, segment_id,
                   cpc, cseg, cdist, cpos, cacc, cout>>

PredictCutLocation(d) ==
    /\ call' = [entry |-> "predict", distance_otdr |-> d,
                out |-> predict_cut_location(segment_poles(segment_id), poles_data, d,
                                             slack_ratio, variant)]
    /\ prev' = call
    /\ UNCHANGED <<segment_data, poles_data, variant, slack_ratio, segment_id,
                   cpc, cseg, cdist, cpos, cacc, cout>>

Next ==
    \/ ValidateSegment
    \/ \E d \in OtdrDistances : PredictCutLocation(d)

Spec == Init /\ [][Next]_vars

(***************************************************************************)
(* Specification SpecConc: NumCalls callers run predict_cut_location at    *)
(* the same time on the same sheets, one loop iteration at a time.  Each   *)
(* call has its own frame: its arguments (cseg, cdist), its loop position  *)
(* (cpos) and its local accumulated_distance (cacc).                       *)
(***************************************************************************)
NumCalls == 2

Calls == 1..NumCalls

Row(seg, pole, dist) == [Segment_ID |-> seg, Pole_ID |-> pole, Distance |-> dist]

ConcTables ==
    { <<Row("A", 1, 100), Row("A", 2, 400), Row("A", 3, 100)>>,
      <<Row("B", 1, 100), Row("A", 2, 400), Row("A", 3, 100)>>,
      <<Row("A", 1, 400), Row("B", 2, 100), Row("A", 3, 0)>> }

ConcPoles ==
    { [p \in 1..3 |-> Coordinates(p)], [p \in {1, 3} |-> Coordinates(p)] }

ConcDistances == {0, 81, 2000}

\* accumulated_distance is a local variable: one per call
AccSlotShared(c) == 1

AccSlot(c) == c

InitConc ==
    /\ segment_data \in ConcTables
    /\ poles_data \in ConcPoles
    /\ variant \in Variants
    /\ slack_ratio \in SlackRatios
    /\ segment_id \in SelectedIds
    /\ call = NoCall
    /\ prev = NoCall
    /\ cpc = [c \in Calls |-> "idle"]
    /\ cseg = [c \in Calls |-> "A"]
    /\ cdist = [c \in Calls |-> 0]
    /\ cpos = [c \in Calls |-> 0]
    /\ cacc = [c \in Calls |-> 0]
    /\ cout = [c \in Calls |-> Valid]

\* The call is entered: accumulated_distance = 0, the loop starts at the first row.
Start(c, id, d) ==
    /\ cpc[c] = "idle"
    /\ cpc' = [cpc EXCEPT ![c] = "loop"]
    /\ cseg' = [cseg EXCEPT ![c] = id]
    /\ cdist' = [cdist EXCEPT ![c] = d]
    /\ cpos' = [cpos EXCEPT ![c] = 1]
    /\ cacc' = [cacc EXCEPT ![AccSlot(c)] = 0]
    /\ UNCHANGED <<segment_data, poles_data, variant, slack_ratio, segment_id,
                   call, prev, cout>>

\* One loop iteration: the row is selected and the call returns or raises,
\* or accumulated_distance grows and the loop goes on.
Iterate(c) ==
    /\ cpc[c] = "loop"
    /\ cpos[c] <= Len(segment_poles(cseg[c]))
    /\ LET step == LoopBody(segment_poles(cseg[c]), poles_data, cdist[c],
                            slack_ratio, variant, cpos[c], cacc[AccSlot(c)])
       IN  IF step.kind = "continue"
           THEN /\ cacc' = [cacc EXCEPT ![AccSlot(c)] = step.accumulated_distance]
                /\ cpos' = [cpos EXCEPT ![c] = cpos[c] + 1]
                /\ UNCHANGED <<cpc, cout>>
           ELSE /\ cout' = [cout EXCEPT ![c] = step]
                /\ cpc' = [cpc EXCEPT ![c] = "done"]
                /\ cacc' = [cacc EXCEPT ![AccSlot(c)] = 0]
                /\ cpos' = [cpos EXCEPT ![c] = 0]
    /\ UNCHANGED <<segment_data, poles_data, variant, slack_ratio, segment_id,
                   call, prev, cseg, cdist>>

\* The loop ran out of rows: raise ValueError("OTDR distance exceeds ...").
Exhaust(c) ==
    /\ cpc[c] = "loop"
    /\ cpos[c] > Len(segment_poles(cseg[c]))
    /\ cout' = [cout EXCEPT ![c] = OutOfRange(cacc[AccSlot(c)])]
    /\ cpc' = [cpc EXCEPT ![c] = "done"]
    /\ cacc' = [cacc EXCEPT ![AccSlot(c)] = 0]
    /\ cpos' = [cpos EXCEPT ![c] = 0]
    /\ UNCHANGED <<segment_data, poles_data, variant, slack_ratio, segment_id,
                   call, prev, cseg, cdist>>

\* The caller has taken the outcome.
Return(c) ==
    /\ cpc[c] = "done"
    /\ cpc' = [cpc EXCEPT ![c] = "idle"]
    /\ cseg' = [cseg EXCEPT ![c] = "A"]
    /\ cdist' = [cdist EXCEPT ![c] = 0]
    /\ cout' = [cout EXCEPT ![c] = Valid]
    /\ UNCHANGED <<segment_data, poles_data, variant, slack_ratio, segment_id,
                   call, prev, cpos, cacc>>

NextConc ==
    \/ \E c \in Calls, id \in SegmentIds, d \in ConcDistances : Start(c, id, d)
    \/ \E c \in Calls : Iterate(c)
    \/ \E c \in Calls : Exhaust(c)
    \/ \E c \in Calls : Return(c)

SpecConc == InitConc /\ [][NextConc]_vars

(***************************************************************************)
(* Properties.  Under Spec they speak of the last finished call (call) and *)
(* the one before it (prev), both on the chain of the selected segment.    *)
(***************************************************************************)
chain == segment_poles(segment_id)

ChainPolesPresent == \A i \in 1..Len(chain) : chain[i].Pole_ID \in DOMAIN poles_data

Returned(out) == out.kind \in {"start_coords", "destination"}

\* sum of the forward distances of the first i entries, hundredths of a metre
RECURSIVE CumulativeTo(_, _)
CumulativeTo(rows, i) ==
    IF i = 0 THEN 0 ELSE CumulativeTo(rows, i - 1) + rows[i].Distance * 100

\* floor(cumulative / S) * C * slack_ratio at entry i
SlackAt(rows, i) ==
    (CumulativeTo(rows, i) \div (SlackSpan(variant) * 100)) * SlackLoop(variant) * slack_ratio

\* distance_otdr * k minus the slack adjustment at entry i
EffectiveAt(rows, i, d) == d * OverreadPct(variant) - SlackAt(rows, i)

\* along-chain distance of the returned point
AlongChain(out) ==
    IF out.kind = "start_coords"
    THEN out.accumulated_distance
    ELSE out.accumulated_distance + out.distance_within_segment

\* C1: on a non-empty chain whose poles are all in the coordinate table,
\* predict_cut_location with distance_otdr = 0 returns exactly the first
\* pole's coordinates.
C1_ZeroDistanceReturnsFirstPole ==
    (/\ call.entry = "predict"
     /\ call.distance_otdr = 0
     /\ chain # <<>>
     /\ ChainPolesPresent)
    => (/\ call.out.kind = "start_coords"
        /\ call.out.start_coords = poles_data[chain[1].Pole_ID])

\* C2: of two calls on the same chain with the same slack_ratio that both
\* return a point, the one with the smaller OTDR distance does not return
\* the point farther along the chain.
C2_MonotonicProgression ==
    (/\ call.entry = "predict"
     /\ prev.entry = "predict"
     /\ Returned(call.out)
     /\ Returned(prev.out)
     /\ prev.distance_otdr <= call.distance_otdr)
    => AlongChain(prev.out) <= AlongChain(call.out)

\* C3: on a non-empty chain predict_cut_location raises the out-of-range
\* error exactly when the adjusted OTDR distance minus the slack adjustment
\* at the last entry is greater than the chain's total forward distance.
C3_OutOfRangeIff ==
    (call.entry = "predict" /\ chain # <<>>)
    => (call.out.kind = "OutOfRange"
        <=> EffectiveAt(chain, Len(chain), call.distance_otdr)
              > CumulativeTo(chain, Len(chain)))

C3_Witness ==
    /\ call.entry = "predict"
    /\ Len(chain) = 1
    /\ chain[1].Distance = 0
    /\ call.distance_otdr > 0
    /\ call.out.kind = "OutOfRange"

\* C4: predict_cut_location called with an empty chain fails with the
\* invalid-segment error, not with the out-of-range or the lookup error.
C4_EmptyChainInvalidSegment ==
    (call.entry = "predict" /\ chain = <<>>) => call.out.kind = "InvalidSegment"

\* C5 as stated: whenever some pole of the chain is absent from the
\* coordinate table, predict_cut_location fails with the lookup error.
C5_AnyMissingPoleLookupError ==
    (call.entry = "predict" /\ ~ChainPolesPresent) => call.out.kind = "IndexError"

\* C5 as amended: predict_cut_location fails with the lookup error (IndexError)
\* exactly when the pole of the entry the distance selects, or the pole of
\* the row it reads end_coords from, is absent from the coordinate table.
C5_LookupErrorIffUsedPoleMissing ==
    call.entry = "predict"
    => (call.out.kind = "IndexError"
        <=> /\ call.out.sel # 0
            /\ \/ chain[call.out.sel].Pole_ID \notin DOMAIN poles_data
               \/ /\ call.out.end_pos # 0
                  /\ chain[call.out.end_pos].Pole_ID \notin DOMAIN poles_data)

C5_Witness ==
    /\ call.entry = "predict"
    /\ call.out.kind = "IndexError"
    /\ call.out.sel = 2
    /\ chain[2].Pole_ID \notin DOMAIN poles_data

\* C6: concurrent calls never change the segment table or the coordinate
\* table, and every finished call has the outcome the same call has when it
\* runs alone.
C6_CallsIndependent ==
    /\ [](\A c \in Calls :
            cpc[c] = "done"
            => cout[c] = predict_cut_location(segment_poles(cseg[c]), poles_data,
                                              cdist[c], slack_ratio, variant))
    /\ [][segment_data' = segment_data /\ poles_data' = poles_data]_vars

C6_Witness ==
    /\ cpc[1] = "done"
    /\ cout[1].kind = "destination"
    /\ cout[1].sel = 2
    /\ cpc[2] = "loop"
    /\ cpos[2] = 2
    /\ cacc[2] > 0

\* C7: when the selected entry is not the last of the chain, end_coords is
\* the position of the entry right after it; end_coords is undefined only
\* when the selected entry is the last one.
C7_EndCoordsFromNextEntry ==
    (call.entry = "predict" /\ Returned(call.out) /\ ChainPolesPresent)
    => /\ call.out.sel < Len(chain)
          => /\ call.out.end_pos = call.out.sel + 1
             /\ call.out.end_coords = poles_data[chain[call.out.sel + 1].Pole_ID]
       /\ call.out.end_coords = None => call.out.sel = Len(chain)

\* C8: the distance_within_segment used to place the cut is never negative:
\* no point is projected a negative distance along the bearing.
C8_NoNegativeProjection ==
    (call.entry = "predict" /\ call.out.kind = "destination")
    => call.out.distance_within_segment >= 0

\* C9: the start pole is returned when the selected entry is the last of the
\* chain or distance_within_segment is 0; in every other case the result is
\* the destination from the start pole along the bearing toward the next
\* entry's pole at distance_within_segment.
C9_ShortCircuit ==
    (call.entry = "predict" /\ Returned(call.out) /\ ChainPolesPresent)
    => LET sel == call.out.sel
           start == poles_data[chain[sel].Pole_ID]
       IN  IF sel = Len(chain) \/ call.out.distance_within_segment = 0
           THEN /\ call.out.kind = "start_coords"
                /\ call.out.start_coords = start
                /\ call.out.bearing = -1
           ELSE /\ call.out.kind = "destination"
                /\ call.out.start_coords = start
                /\ call.out.bearing =
                     calculate_initial_bearing(start, poles_data[chain[sel + 1].Pole_ID])

\* C10: the selected entry is the first whose cumulative distance reaches
\* the effective distance computed at that entry, accumulated_distance is
\* the sum of the forward distances before it, and distance_within_segment
\* does not exceed its pole_distance.
C10_FirstEntryReachingEffective ==
    (call.entry = "predict" /\ call.out.sel # 0)
    => LET sel == call.out.sel
           d == call.distance_otdr
       IN  /\ CumulativeTo(chain, sel) >= EffectiveAt(chain, sel, d)
           /\ \A j \in 1..(sel - 1) : CumulativeTo(chain, j) < EffectiveAt(chain, j, d)
           /\ call.out.accumulated_distance = CumulativeTo(chain, sel - 1)
           /\ call.out.effective_distance = EffectiveAt(chain, sel, d)
           /\ call.out.distance_within_segment <= chain[sel].Distance * 100

C10_Witness ==
    /\ call.entry = "predict"
    /\ call.out.kind = "destination"
    /\ call.out.sel = 2
    /\ call.out.distance_within_segment > 0
    /\ call.out.distance_within_segment < chain[2].Distance * 100

====
